---- MODULE Spec2Model ----
(***************************************************************************)
(* A model of 2-recommendations/recommendations.py: the similarity         *)
(* metrics, neighbour ranking, matrix transposition and the three          *)
(* recommenders.  The file is Python 2 (it uses the print statement and    *)
(* has no `from __future__ import division`), so `/` between two ints is   *)
(* floor division and `/` with a float operand is true division.           *)
(*                                                                         *)
(* A Python number is a record [t, n, d]: its type ("int" or "float") and  *)
(* its value n/d in lowest terms.  Floats are modelled as exact rationals  *)
(* (rounding of IEEE doubles is not modelled); sqrt is exact on squares of *)
(* rationals and rounded down to two decimals otherwise.                   *)
(***************************************************************************)
EXTENDS Integers, Sequences, FiniteSets, TLC

VARIABLES prefs, order, store, call

vars == <<prefs, order, store, call>>

(***************************************************************************)
(* Bounds of the model.                                                    *)
(***************************************************************************)
\* the ratings of a matrix of three entities are drawn from 0 .. MaxRating
MaxRating == 1
\* the ratings of a matrix of two entities are drawn from 0 .. MaxSimRating
MaxSimRating == 2
\* the neighbour count n is drawn from 0 .. MaxN
MaxN == 3

Users == {"A", "B", "C"}
Items == {"x", "y", "z"}

(***************************************************************************)
(* Python numbers.                                                         *)
(***************************************************************************)
Abs(i) == IF i < 0 THEN -i ELSE i

RECURSIVE Gcd(_, _)
Gcd(a, b) == IF b = 0 THEN a ELSE Gcd(b, a % b)

\* the number n/d of type t, in lowest terms with a positive denominator
Num(t, n, d) ==
    LET g == Gcd(Abs(n), Abs(d))
        s == IF d < 0 THEN -1 ELSE 1
    IN  [t |-> t, n |-> s * (n \div g), d |-> s * (d \div g)]

PyInt(i) == [t |-> "int", n |-> i, d |-> 1]

\* float(x)
ToFloat(a) == [t |-> "float", n |-> a.n, d |-> a.d]

\* the type of the result of an arithmetic operation on a and b
Coerce(a, b) == IF a.t = "int" /\ b.t = "int" THEN "int" ELSE "float"

Add(a, b) == Num(Coerce(a, b), a.n * b.d + b.n * a.d, a.d * b.d)
Sub(a, b) == Num(Coerce(a, b), a.n * b.d - b.n * a.d, a.d * b.d)
Mul(a, b) == Num(Coerce(a, b), a.n * b.n, a.d * b.d)

\* a < b, a <= b, a == b: Python compares ints and floats by value
Lt(a, b) == a.n * b.d < b.n * a.d
Le(a, b) == a.n * b.d <= b.n * a.d
Eq(a, b) == a.n * b.d = b.n * a.d

\* floor of p/q for q > 0
FloorDiv(p, q) == IF p >= 0 THEN p \div q ELSE -((-p + q - 1) \div q)

\* a / b for b # 0: floor division of two ints (Python 2), true division
\* as soon as one operand is a float
Div(a, b) ==
    IF a.t = "int" /\ b.t = "int"
    THEN PyInt(IF b.n > 0 THEN FloorDiv(a.n, b.n) ELSE FloorDiv(-a.n, -b.n))
    ELSE Num("float", a.n * b.d, a.d * b.n)

\* the largest k in lo .. hi with k * k <= v
RECURSIVE ISqrt(_, _, _)
ISqrt(v, lo, hi) ==
    IF lo >= hi THEN lo
    ELSE LET mid == (lo + hi + 1) \div 2
         IN  IF mid * mid <= v THEN ISqrt(v, mid, hi) ELSE ISqrt(v, lo, mid - 1)

\* math.sqrt(a) for a >= 0: always a float
Sqrt(a) ==
    LET rn == ISqrt(a.n, 0, a.n)
        rd == ISqrt(a.d, 0, a.d)
    IN  IF rn * rn = a.n /\ rd * rd = a.d
        THEN Num("float", rn, rd)
        ELSE LET v == a.n * a.d * 10000
             IN  Num("float", ISqrt(v, 0, IF v < 46340 THEN v ELSE 46340), 100 * a.d)

\* sum(seq): Python's sum starts from the int 0
RECURSIVE Sum(_)
Sum(seq) == IF seq = <<>> THEN PyInt(0) ELSE Add(Sum(SubSeq(seq, 1, Len(seq) - 1)), seq[Len(seq)])

(***************************************************************************)
(* Dictionaries are functions; strings compare by code point.              *)
(***************************************************************************)
\* the strings of the model, in ascending order
Names == <<"A", "B", "C", "x", "y", "z">>
OrdOf == [s \in {Names[i] : i \in 1 .. Len(Names)} |-> CHOOSE i \in 1 .. Len(Names) : Names[i] = s]
Ord(s) == OrdOf[s]

\* the keys in S as a sequence, in ascending order
KeySeq(S) == SelectSeq(Names, LAMBDA k : k \in S)

\* every order in which a dict with key set S may be iterated
Orders(S) == {o \in [1 .. Cardinality(S) -> S] : \A k \in S : \E i \in DOMAIN o : o[i] = k}

\* the items of a rating map, as the sequence its iteration yields
ItemsOf(d) == KeySeq(DOMAIN d)

(***************************************************************************)
(* Similarity metrics.                                                     *)
(***************************************************************************)
\* [item for item in prefs[p1] if item in prefs[p2]]
Shared(p, p1, p2) == SelectSeq(ItemsOf(p[p1]), LAMBDA item : item \in DOMAIN p[p2])

sim_distance(p, p1, p2) ==
    LET shared == Shared(p, p1, p2)
        sum_of_squares ==
            Sum([i \in 1 .. Len(shared) |->
                   LET diff == Sub(p[p1][shared[i]], p[p2][shared[i]])
                   IN  Mul(diff, diff)])
    IN  IF Len(shared) = 0 THEN PyInt(0)
        ELSE Div(PyInt(1), Add(PyInt(1), sum_of_squares))

\* sim_pearson with the product of the sums not divided by the number of
\* shared items
sim_pearson_undivided(p, p1, p2) ==
    LET shared == Shared(p, p1, p2)
        p1_sum == Sum([i \in 1 .. Len(shared) |-> p[p1][shared[i]]])
        p2_sum == Sum([i \in 1 .. Len(shared) |-> p[p2][shared[i]]])
        p1_sum_sq == Sum([i \in 1 .. Len(shared) |-> Mul(p[p1][shared[i]], p[p1][shared[i]])])
        p2_sum_sq == Sum([i \in 1 .. Len(shared) |-> Mul(p[p2][shared[i]], p[p2][shared[i]])])
        sum_product == Sum([i \in 1 .. Len(shared) |-> Mul(p[p1][shared[i]], p[p2][shared[i]])])
        num_shared_item == PyInt(Len(shared))
        numerator == Sub(sum_product, Mul(p1_sum, p2_sum))
        denominator ==
            Sqrt(Mul(Sub(p1_sum_sq, Div(Mul(p1_sum, p1_sum), num_shared_item)),
                     Sub(p2_sum_sq, Div(Mul(p2_sum, p2_sum), num_shared_item))))
    IN  IF Len(shared) = 0 THEN PyInt(0)
        ELSE IF Eq(denominator, PyInt(0)) THEN PyInt(0)
        ELSE Div(numerator, denominator)

sim_pearson(p, p1, p2) ==
    LET shared == Shared(p, p1, p2)
        p1_sum == Sum([i \in 1 .. Len(shared) |-> p[p1][shared[i]]])
        p2_sum == Sum([i \in 1 .. Len(shared) |-> p[p2][shared[i]]])
        p1_sum_sq == Sum([i \in 1 .. Len(shared) |-> Mul(p[p1][shared[i]], p[p1][shared[i]])])
        p2_sum_sq == Sum([i \in 1 .. Len(shared) |-> Mul(p[p2][shared[i]], p[p2][shared[i]])])
        sum_product == Sum([i \in 1 .. Len(shared) |-> Mul(p[p1][shared[i]], p[p2][shared[i]])])
        num_shared_item == PyInt(Len(shared))
        numerator == Sub(sum_product, Div(Mul(p1_sum, p2_sum), num_shared_item))
        denominator ==
            Sqrt(Mul(Sub(p1_sum_sq, Div(Mul(p1_sum, p1_sum), num_shared_item)),
                     Sub(p2_sum_sq, Div(Mul(p2_sum, p2_sum), num_shared_item))))
    IN  IF Len(shared) = 0 THEN PyInt(0)
        ELSE IF Eq(denominator, PyInt(0)) THEN PyInt(0)
        ELSE Div(numerator, denominator)

sim_tanimoto(p, p1, p2) ==
    LET p1_len == Len(ItemsOf(p[p1]))
        p2_len == Len(ItemsOf(p[p2]))
        shared_len == Len(Shared(p, p1, p2))
    IN  IF p1_len = 0 \/ p2_len = 0 \/ shared_len = 0 THEN PyInt(0)
        ELSE Div(ToFloat(PyInt(shared_len)), PyInt(p1_len + p2_len - shared_len))

Metrics == {"sim_distance", "sim_pearson", "sim_tanimoto"}

\* similarity(prefs, p1, p2) for the metric passed as `similarity`
Similarity(f, p, p1, p2) ==
    CASE f = "sim_distance" -> sim_distance(p, p1, p2)
      [] f = "sim_pearson"  -> sim_pearson(p, p1, p2)
      [] f = "sim_tanimoto" -> sim_tanimoto(p, p1, p2)

(***************************************************************************)
(* Neighbour ranking.                                                      *)
(***************************************************************************)
\* a comparison of the scores alone
ScoreLt(a, b) == Lt(a[1], b[1])

\* a < b for two (score, name) tuples: by score, then by name
TupleLt(a, b) == Lt(a[1], b[1]) \/ (Eq(a[1], b[1]) /\ Ord(a[2]) < Ord(b[2]))

\* x put into the descending list `sorted`, after the elements not below it
InsertReverse(sorted, x) ==
    LET pos == Cardinality({i \in 1 .. Len(sorted) : ~TupleLt(sorted[i], x)})
    IN  SubSeq(sorted, 1, pos) \o <<x>> \o SubSeq(sorted, pos + 1, Len(sorted))

\* list.sort(reverse=True): descending and stable
RECURSIVE SortReverse(_)
SortReverse(seq) ==
    IF seq = <<>> THEN <<>>
    ELSE InsertReverse(SortReverse(SubSeq(seq, 1, Len(seq) - 1)), seq[Len(seq)])

\* the list left untruncated
SliceAll(seq, n) == seq

\* seq[:n] for n >= 0
Slice(seq, n) == SubSeq(seq, 1, IF n < Len(seq) THEN n ELSE Len(seq))

\* `ord` is the order in which iterating over p yields its keys
top_matches(p, ord, person, n, similarity) ==
    LET others == SelectSeq(ord, LAMBDA other : other # person)
        sim_list == [i \in 1 .. Len(others) |->
                       <<Similarity(similarity, p, person, others[i]), others[i]>>]
    IN  Slice(SortReverse(sim_list), n)

(***************************************************************************)
(* Matrix transposition.                                                   *)
(***************************************************************************)
\* the row of j started afresh at every rating: transformed[j] = {i: v}
FlipOverwrite(transformed, j, i, v) ==
    [k \in DOMAIN transformed \cup {j} |->
       IF k = j THEN [e \in {i} |-> v] ELSE transformed[k]]

\* transformed.setdefault(j, {}); transformed[j][i] = v
Flip(transformed, j, i, v) ==
    LET row == IF j \in DOMAIN transformed THEN transformed[j] ELSE <<>>
    IN  [k \in DOMAIN transformed \cup {j} |->
           IF k = j THEN [e \in DOMAIN row \cup {i} |-> IF e = i THEN v ELSE row[e]]
           ELSE transformed[k]]

\* the inner loop of transform_prefs over the items js of row i
RECURSIVE TransformRow(_, _, _, _)
TransformRow(transformed, p, i, js) ==
    IF js = <<>> THEN transformed
    ELSE TransformRow(Flip(transformed, Head(js), i, p[i][Head(js)]), p, i, Tail(js))

\* the outer loop of transform_prefs over the keys is
RECURSIVE TransformRows(_, _, _)
TransformRows(transformed, p, is) ==
    IF is = <<>> THEN transformed
    ELSE TransformRows(TransformRow(transformed, p, Head(is), ItemsOf(p[Head(is)])),
                       p, Tail(is))

transform_prefs(p, ord) == TransformRows(<<>>, p, ord)

(***************************************************************************)
(* The recommenders.                                                       *)
(***************************************************************************)
\* how a recommender ends: it returns its list, or the division raises
Returned(list) == [returned |-> list]
ZeroDivisionError == [raised |-> "ZeroDivisionError"]

\* d.setdefault(k, 0); d[k] += v
AddTo(d, k, v) ==
    [x \in DOMAIN d \cup {k} |->
       IF x = k THEN Add(IF k \in DOMAIN d THEN d[k] ELSE PyInt(0), v) ELSE d[x]]

\* both totals with `weighted` and `weight` added under item
Accumulate(tot, item, weighted, weight) ==
    [rating_by_sim_total |-> AddTo(tot.rating_by_sim_total, item, weighted),
     sim_score_total |-> AddTo(tot.sim_score_total, item, weight)]

NoTotals == [rating_by_sim_total |-> <<>>, sim_score_total |-> <<>>]

\* the weighted scores, sorted; the division raises on a zero weight sum
Rankings(tot) ==
    LET keys == ItemsOf(tot.rating_by_sim_total)
    IN  IF \E item \in DOMAIN tot.rating_by_sim_total : Eq(tot.sim_score_total[item], PyInt(0))
        THEN ZeroDivisionError
        ELSE Returned(SortReverse([i \in 1 .. Len(keys) |->
                                     <<Div(tot.rating_by_sim_total[keys[i]],
                                           tot.sim_score_total[keys[i]]), keys[i]>>]))

\* the loop over the items of `other` without the test on the person's own
\* ratings
RECURSIVE DirectItemsUnfiltered(_, _, _, _, _, _)
DirectItemsUnfiltered(tot, p, person, other, sim_score, items) ==
    IF items = <<>> THEN tot
    ELSE DirectItemsUnfiltered(
             Accumulate(tot, Head(items), Mul(p[other][Head(items)], sim_score), sim_score),
             p, person, other, sim_score, Tail(items))

\* user_based_recommend: the loop over the items of `other`
RECURSIVE DirectItems(_, _, _, _, _, _)
DirectItems(tot, p, person, other, sim_score, items) ==
    IF items = <<>> THEN tot
    ELSE LET item == Head(items)
             next == IF item \notin DOMAIN p[person] \/ Eq(p[person][item], PyInt(0))
                     THEN Accumulate(tot, item, Mul(p[other][item], sim_score), sim_score)
                     ELSE tot
         IN  DirectItems(next, p, person, other, sim_score, Tail(items))

\* user_based_recommend: the loop over the other entities
RECURSIVE DirectOthers(_, _, _, _, _)
DirectOthers(tot, p, person, similarity, others) ==
    IF others = <<>> THEN tot
    ELSE LET other == Head(others)
             sim_score == Similarity(similarity, p, person, other)
             next == IF other = person THEN tot
                     ELSE IF Le(sim_score, PyInt(0)) THEN tot
                     ELSE DirectItems(tot, p, person, other, sim_score, ItemsOf(p[other]))
         IN  DirectOthers(next, p, person, similarity, Tail(others))

user_based_recommend(p, ord, person, similarity) ==
    Rankings(DirectOthers(NoTotals, p, person, similarity, ord))

\* `ord` is the iteration order of p
sim_user_base(p, ord, n) ==
    [user \in DOMAIN p |-> top_matches(p, ord, user, n, "sim_distance")]

\* user_based_recommend_efficient: the loop over the items of user2
RECURSIVE EfficientItems(_, _, _, _, _, _)
EfficientItems(tot, p, user, user2, sim_score, items) ==
    IF items = <<>> THEN tot
    ELSE LET item == Head(items)
             next == IF item \in DOMAIN p[user] THEN tot
                     ELSE Accumulate(tot, item, Mul(p[user2][item], sim_score), sim_score)
         IN  EfficientItems(next, p, user, user2, sim_score, Tail(items))

\* user_based_recommend_efficient: the loop over the stored neighbours
RECURSIVE EfficientNeighbours(_, _, _, _)
EfficientNeighbours(tot, p, user, neighbours) ==
    IF neighbours = <<>> THEN tot
    ELSE LET sim_score == Head(neighbours)[1]
             user2 == Head(neighbours)[2]
         IN  EfficientNeighbours(
                 EfficientItems(tot, p, user, user2, sim_score, ItemsOf(p[user2])),
                 p, user, Tail(neighbours))

user_based_recommend_efficient(p, base, user) ==
    Rankings(EfficientNeighbours(NoTotals, p, user, base[user]))

\* `ord` is the iteration order of p, `itemOrd` that of the transposed matrix
sim_item_base(p, ord, itemOrd, n) ==
    LET item_prefs == transform_prefs(p, ord)
    IN  [item \in DOMAIN item_prefs |-> top_matches(item_prefs, itemOrd, item, n, "sim_distance")]

\* item_based_recommend: the loop over the items similar to `item`
RECURSIVE ItemBasedSimilar(_, _, _, _)
ItemBasedSimilar(tot, user_rating, rating, similar) ==
    IF similar = <<>> THEN tot
    ELSE LET sim_score == Head(similar)[1]
             item2 == Head(similar)[2]
             next == IF item2 \in DOMAIN user_rating THEN tot
                     ELSE Accumulate(tot, item2, Mul(rating, sim_score), sim_score)
         IN  ItemBasedSimilar(next, user_rating, rating, Tail(similar))

\* item_based_recommend: the loop over the items the user rated
RECURSIVE ItemBasedRated(_, _, _, _)
ItemBasedRated(tot, user_rating, base, items) ==
    IF items = <<>> THEN tot
    ELSE ItemBasedRated(
             ItemBasedSimilar(tot, user_rating, user_rating[Head(items)], base[Head(items)]),
             user_rating, base, Tail(items))

item_based_recommend(p, base, user) ==
    Rankings(ItemBasedRated(NoTotals, p[user], base, ItemsOf(p[user])))

(***************************************************************************)
(* Inputs: a matrix holds ratings of one type, ints or floats.             *)
(***************************************************************************)
Ratings(t, max) == {[t |-> t, n |-> k, d |-> 1] : k \in 0 .. max}

\* every rating map over a subset of I with ratings of type t
RatingMaps(I, t, max) == UNION {[D -> Ratings(t, max)] : D \in SUBSET I}

\* every matrix with the keys U over the counterparts I, of a type in T
Matrices(U, I, max, T) == UNION {[U -> RatingMaps(I, t, max)] : t \in T}

\* the two matrices of the concrete scenarios
ScenarioDistance ==
    [u \in {"A", "B", "C"} |->
       IF u = "C" THEN [i \in {"x", "y"} |-> IF i = "x" THEN PyInt(5) ELSE PyInt(1)]
       ELSE [i \in {"x", "y"} |-> IF i = "x" THEN PyInt(1) ELSE PyInt(2)]]
ScenarioDisjoint ==
    [u \in {"A", "B"} |-> IF u = "A" THEN [i \in {"x"} |-> PyInt(5)] ELSE [i \in {"y"} |-> PyInt(5)]]

NoCall == [op |-> "none"]
NoStore == [kind |-> "none"]

(***************************************************************************)
(* Operations: one call at a time, each returning before the next.         *)
(***************************************************************************)
CallSimilarity(f, p1, p2) ==
    /\ call = NoCall
    /\ call' = [op |-> f, p1 |-> p1, p2 |-> p2, result |-> Similarity(f, prefs, p1, p2)]
    /\ UNCHANGED <<prefs, order, store>>

CallTopMatches(person, n, f) ==
    /\ call = NoCall
    /\ call' = [op |-> "top_matches", person |-> person, n |-> n, similarity |-> f,
                result |-> top_matches(prefs, order, person, n, f)]
    /\ UNCHANGED <<prefs, order, store>>

CallTransformPrefs ==
    /\ call = NoCall
    /\ call' = [op |-> "transform_prefs", result |-> transform_prefs(prefs, order)]
    /\ UNCHANGED <<prefs, order, store>>

CallUserBasedRecommend(person, f) ==
    /\ call = NoCall
    /\ call' = [op |-> "user_based_recommend", person |-> person, similarity |-> f,
                result |-> user_based_recommend(prefs, order, person, f)]
    /\ UNCHANGED <<prefs, order, store>>

CallSimUserBase(n) ==
    /\ call = NoCall
    /\ store' = [kind |-> "user", n |-> n, base |-> sim_user_base(prefs, order, n)]
    /\ call' = [op |-> "sim_user_base", n |-> n]
    /\ UNCHANGED <<prefs, order>>

CallSimItemBase(n) ==
    /\ call = NoCall
    /\ \E itemOrd \in Orders(DOMAIN transform_prefs(prefs, order)) :
          store' = [kind |-> "item", n |-> n, base |-> sim_item_base(prefs, order, itemOrd, n)]
    /\ call' = [op |-> "sim_item_base", n |-> n]
    /\ UNCHANGED <<prefs, order>>

CallUserBasedRecommendEfficient(user) ==
    /\ call = NoCall
    /\ store.kind = "user"
    /\ call' = [op |-> "user_based_recommend_efficient", person |-> user,
                result |-> user_based_recommend_efficient(prefs, store.base, user)]
    /\ UNCHANGED <<prefs, order, store>>

CallItemBasedRecommend(user) ==
    /\ call = NoCall
    /\ store.kind = "item"
    /\ call' = [op |-> "item_based_recommend", person |-> user,
                result |-> item_based_recommend(prefs, store.base, user)]
    /\ UNCHANGED <<prefs, order, store>>

\* the caller takes the result
Return ==
    /\ call # NoCall
    /\ call' = NoCall
    /\ UNCHANGED <<prefs, order, store>>

(***************************************************************************)
(* SpecSim: the similarity metrics on matrices of two entities over three  *)
(* counterparts, and on the matrices of the two concrete scenarios.        *)
(***************************************************************************)
InitSim ==
    /\ prefs \in Matrices({"A", "B"}, Items, MaxSimRating, {"int", "float"}) \cup {ScenarioDistance, ScenarioDisjoint}
    /\ order = KeySeq(DOMAIN prefs)
    /\ store = NoStore
    /\ call = NoCall

NextSim ==
    \/ \E f \in Metrics, p1 \in DOMAIN prefs, p2 \in DOMAIN prefs : CallSimilarity(f, p1, p2)
    \/ Return

SpecSim == InitSim /\ [][NextSim]_vars

(***************************************************************************)
(* Spec: transposition and direct recommendation on matrices of three      *)
(* entities over two counterparts, iterated in any order.                  *)
(***************************************************************************)
Init ==
    /\ prefs \in Matrices(Users, {"x", "y"}, MaxRating, {"int", "float"})
    /\ order \in Orders(DOMAIN prefs)
    /\ store = NoStore
    /\ call = NoCall

Next ==
    \/ CallTransformPrefs
    \/ \E person \in DOMAIN prefs, f \in Metrics : CallUserBasedRecommend(person, f)
    \/ Return

Spec == Init /\ [][Next]_vars

(***************************************************************************)
(* SpecRank: neighbour ranking on the float matrices of three entities     *)
(* over two counterparts, iterated in any order.                           *)
(***************************************************************************)
InitRank ==
    /\ prefs \in Matrices(Users, {"x", "y"}, MaxRating, {"float"})
    /\ order \in Orders(DOMAIN prefs)
    /\ store = NoStore
    /\ call = NoCall

NextRank ==
    \/ \E person \in DOMAIN prefs, n \in 0 .. MaxN, f \in Metrics : CallTopMatches(person, n, f)
    \/ Return

SpecRank == InitRank /\ [][NextRank]_vars

(***************************************************************************)
(* SpecCached: the neighbourhood stores and the recommenders that read     *)
(* them, beside the direct recommender.                                    *)
(***************************************************************************)
InitCached ==
    /\ prefs \in Matrices(Users, {"x", "y"}, MaxRating, {"int", "float"}) \cup {ScenarioDisjoint}
    /\ order = KeySeq(DOMAIN prefs)
    /\ store = NoStore
    /\ call = NoCall

NextCached ==
    \/ \E n \in 0 .. MaxN : CallSimUserBase(n)
    \/ \E n \in 0 .. MaxN : CallSimItemBase(n)
    \/ \E user \in DOMAIN prefs : CallUserBasedRecommendEfficient(user)
    \/ \E user \in DOMAIN prefs : CallItemBasedRecommend(user)
    \/ \E person \in DOMAIN prefs : CallUserBasedRecommend(person, "sim_distance")
    \/ Return

SpecCached == InitCached /\ [][NextCached]_vars

(***************************************************************************)
(* Properties.                                                             *)
(***************************************************************************)
Zero == PyInt(0)
One == PyInt(1)

Raised(r) == "raised" \in DOMAIN r

\* the position of key k in the iteration order
Position(k) == CHOOSE i \in DOMAIN order : order[i] = k

\* two recommendation lists hold the same items with the same scores
SameScores(r1, r2) ==
    /\ ~Raised(r1) /\ ~Raised(r2)
    /\ Len(r1.returned) = Len(r2.returned)
    /\ \A i \in DOMAIN r1.returned :
          /\ r1.returned[i][2] = r2.returned[i][2]
          /\ Eq(r1.returned[i][1], r2.returned[i][1])

\* C1: whenever the store's list for e is top_matches(m, e, n, sim_distance),
\* user_based_recommend_efficient(m, store, e) and
\* user_based_recommend(m, e, sim_distance) give the same items with the same
\* scores.
C1_CachedEqualsDirect ==
    (/\ call.op = "user_based_recommend_efficient"
     /\ store.base[call.person] = top_matches(prefs, order, call.person, store.n, "sim_distance"))
    => SameScores(call.result, user_based_recommend(prefs, order, call.person, "sim_distance"))

\* C2: no recommender, direct or fed a store built by sim_user_base or
\* sim_item_base, ever divides by a zero weight sum.
C2_NoZeroDivision ==
    call.op \in {"user_based_recommend", "user_based_recommend_efficient", "item_based_recommend"}
    => ~Raised(call.result)

\* C3: user_based_recommend(m, e, f) names no item that e rated with a nonzero
\* value: each item is absent from m[e] or stored there as exactly 0.
C3_NoRatedItem ==
    call.op = "user_based_recommend"
    => /\ ~Raised(call.result)
       /\ \A i \in DOMAIN call.result.returned :
             LET item == call.result.returned[i][2]
             IN  item \notin DOMAIN prefs[call.person] \/ Eq(prefs[call.person][item], Zero)

\* a positive-similarity neighbour rates an item that e rated with a nonzero
\* value, and the list is not empty
C3_Witness ==
    /\ call.op = "user_based_recommend"
    /\ call.result # Returned(<<>>)
    /\ \E other \in DOMAIN prefs \ {call.person}, item \in DOMAIN prefs[call.person] :
          /\ Lt(Zero, Similarity(call.similarity, prefs, call.person, other))
          /\ item \in DOMAIN prefs[other]
          /\ ~Eq(prefs[call.person][item], Zero)

\* C4: top_matches(m, e, n, f) returns min(n, |m| - 1) pairs, of non-increasing
\* score, each other entity at most once and never e.
C4_TopMatches ==
    call.op = "top_matches"
    => LET r == call.result
           available == Cardinality(DOMAIN prefs) - 1
       IN  /\ Len(r) = IF call.n < available THEN call.n ELSE available
           /\ \A i \in DOMAIN r : \A j \in DOMAIN r : i < j => Le(r[j][1], r[i][1])
           /\ \A i \in DOMAIN r : \A j \in DOMAIN r : i # j => r[i][2] # r[j][2]
           /\ \A i \in DOMAIN r : r[i][2] \in DOMAIN prefs \ {call.person}

\* n exceeds the neighbours there are, and their scores differ
C4_Witness ==
    /\ call.op = "top_matches"
    /\ call.n > Cardinality(DOMAIN prefs) - 1
    /\ Len(call.result) = 2
    /\ Lt(call.result[2][1], call.result[1][1])

NoEmptyRow(m) == \A e \in DOMAIN m : DOMAIN m[e] # {}

\* C5: transform_prefs(m)[c][e] = m[e][c] for exactly the ratings present in m,
\* and transform_prefs(transform_prefs(m)) = m when no entity of m has an empty
\* rating map.
C5_Transpose ==
    call.op = "transform_prefs"
    => LET t == call.result
       IN  /\ \A c \in DOMAIN t : \A e \in DOMAIN t[c] :
                 e \in DOMAIN prefs /\ c \in DOMAIN prefs[e] /\ t[c][e] = prefs[e][c]
           /\ \A e \in DOMAIN prefs : \A c \in DOMAIN prefs[e] :
                 c \in DOMAIN t /\ e \in DOMAIN t[c]
           /\ NoEmptyRow(prefs) => \A ord \in Orders(DOMAIN t) : transform_prefs(t, ord) = prefs

\* a matrix without empty rows whose rows differ in their keys
C5_Witness ==
    /\ call.op = "transform_prefs"
    /\ NoEmptyRow(prefs)
    /\ \E a \in DOMAIN prefs, b \in DOMAIN prefs : DOMAIN prefs[a] # DOMAIN prefs[b]
    /\ \E a \in DOMAIN prefs : \E c \in DOMAIN prefs[a] : ~Eq(prefs[a][c], Zero)

\* the ratings of entity a are all the same value
Constant(a) == \A i \in DOMAIN prefs[a] : \A j \in DOMAIN prefs[a] : Eq(prefs[a][i], prefs[a][j])

SelfCall == call.op \in {"sim_distance", "sim_pearson"} /\ call.p1 = call.p2 /\ DOMAIN prefs[call.p1] # {}

\* C6, as stated: sim_distance(m, a, a) and sim_pearson(m, a, a) are 1 for
\* every entity a with at least one rating.
C6_SelfSimilarityOne == SelfCall => Eq(call.result, One)

\* C6, amended: sim_distance(m, a, a) is 1 for every entity a with at least one
\* rating; sim_pearson(m, a, a) is 1 when the ratings of a are not all equal
\* and 0 when they are (one rating, or the same value throughout).
C6_SelfSimilarity ==
    SelfCall
    => IF call.op = "sim_pearson" /\ Constant(call.p1)
       THEN Eq(call.result, Zero)
       ELSE Eq(call.result, One)

\* sim_pearson of an entity with itself, its ratings not all equal
C6_Witness ==
    /\ SelfCall
    /\ call.op = "sim_pearson"
    /\ ~Constant(call.p1)
    /\ Eq(call.result, One)

MinusOne == PyInt(-1)

Disjoint(a, b) == DOMAIN prefs[a] \cap DOMAIN prefs[b] = {}

\* C7: sim_distance and sim_tanimoto lie in [0, 1], sim_pearson in [-1, 1],
\* and all three are exactly 0 on entities without a shared key.
C7_ScoreRange ==
    call.op \in Metrics
    => /\ call.op \in {"sim_distance", "sim_tanimoto"} => Le(Zero, call.result) /\ Le(call.result, One)
       /\ call.op = "sim_pearson" => Le(MinusOne, call.result) /\ Le(call.result, One)
       /\ Disjoint(call.p1, call.p2) => Eq(call.result, Zero)

\* the sum of the squared rating differences of a and b over their shared keys
SquaredDistance(a, b) ==
    LET shared == KeySeq(DOMAIN prefs[a] \cap DOMAIN prefs[b])
    IN  Sum([i \in 1 .. Len(shared) |->
               Mul(Sub(prefs[a][shared[i]], prefs[b][shared[i]]),
                   Sub(prefs[a][shared[i]], prefs[b][shared[i]]))])

\* C8: on two entities with a shared key sim_distance is exactly 1 / (1 + S),
\* S the sum of the squared rating differences over the shared keys, for
\* whole-number ratings too.
C8_DistanceFormula ==
    (call.op = "sim_distance" /\ ~Disjoint(call.p1, call.p2))
    => LET S == SquaredDistance(call.p1, call.p2)
       IN  call.result.n * (S.d + S.n) = call.result.d * S.d

\* C9: user_based_recommend(m, e, f) returns the empty list, without raising,
\* when no other entity has a positive similarity to e or every neighbour of
\* positive similarity rates only items e has rated.
C9_EmptyResult ==
    (/\ call.op = "user_based_recommend"
     /\ \A other \in DOMAIN prefs \ {call.person} :
           Lt(Zero, Similarity(call.similarity, prefs, call.person, other))
           => DOMAIN prefs[other] \subseteq DOMAIN prefs[call.person])
    => call.result = Returned(<<>>)

TopMatchesTie(i, j) ==
    /\ i \in DOMAIN call.result /\ j \in DOMAIN call.result
    /\ i < j
    /\ Eq(call.result[i][1], call.result[j][1])

\* C10, as stated: top_matches lists neighbours of equal score in the order in
\* which iteration over the matrix produced them.
C10_TiesInIterationOrder ==
    call.op = "top_matches"
    => \A i \in DOMAIN call.result : \A j \in DOMAIN call.result :
          TopMatchesTie(i, j) => Position(call.result[i][2]) < Position(call.result[j][2])

\* C10, amended: top_matches lists neighbours of equal score by descending
\* name, whatever order iteration over the matrix produced them in.
C10_TiesByName ==
    call.op = "top_matches"
    => \A i \in DOMAIN call.result : \A j \in DOMAIN call.result :
          TopMatchesTie(i, j) => Ord(call.result[j][2]) < Ord(call.result[i][2])

\* two neighbours of equal score, listed against the iteration order
C10_Witness ==
    /\ call.op = "top_matches"
    /\ TopMatchesTie(1, 2)
    /\ Position(call.result[2][2]) < Position(call.result[1][2])

====
